---- MODULE Spec2Model ----
(***************************************************************************)
(* A model of the coin game (src/src/main.ts, lines 1-352, and the         *)
(* CoinCache class of src/unnamed/part_001).                               *)
(*                                                                         *)
(* Units.  Positions (latitude, longitude) are integers counting half      *)
(* tiles: one unit is 0.5e-4 degrees, so TILE_DEGREES = 1e-4 is 2 units.   *)
(* luck() values are integers counting thousandths: 0.1 is 100.            *)
(* A JSON text is modelled by the tuple of the values it lists, in the     *)
(* order JSON.stringify writes them; parsing reads them back by place.     *)
(* An optional value (Coin | undefined, string | null) is a sequence of    *)
(* length 0 or 1.                                                          *)
(***************************************************************************)
EXTENDS Integers, Sequences, FiniteSets, TLC

\* ------------------------------------------------------------------ bounds

\* The longest player path the model lets a session build.
MaxPath == 3
\* The number of operations applied to the CoinCache object of CacheSpec.
MaxOps == 4
\* The calls made on the cache of the scenario.
MaxScenarioOps == 8
\* The largest counter value and the longest inventory CacheSpec starts from.
MaxCount == 2
MaxInv == 1

\* ------------------------------------------------------- program constants

TILE_DEGREES == 2
NEIGHBORHOOD_SIZE == 8
CACHE_SPAWN_PROBABILITY == 100
MOVE_STEP == TILE_DEGREES

PLAYER_START == [x |-> 739789, y |-> -2441256]

\* ------------------------------------------------------------------- luck

\* The keys whose luck differs from the default.  The start cell is
\* (369894, -1220628).
LuckTable ==
  ( <<5, 5>>              :> 50 )  @@
  ( <<4, 5>>              :> 0 )   @@
  ( <<4, 4>>              :> 9 )   @@
  ( <<6, 5>>              :> 10 )  @@
  ( <<5, 6>>              :> 99 )  @@
  ( <<6, 6>>              :> 100 ) @@
  ( <<369901, -1220628>>  :> 25 )  @@
  ( <<369886, -1220628>>  :> 7 )   @@
  ( <<369894, -1220620>>  :> 9 )   @@
  ( <<369895, -1220627>>  :> 100 ) @@
  ( <<100, 100>>          :> 12 )

luck(key) == IF key \in DOMAIN LuckTable THEN LuckTable[key] ELSE 500

\* -------------------------------------------------------------- CoinCache

\* The constructor numbering its coins from 1.
CoinCache_NumbersFromOne(totalMints, position) ==
  [inventory |-> <<>>, last_coin |-> 1,
   mints_remaining |-> totalMints, position |-> position]

CoinCache(totalMints, position) ==
  [inventory |-> <<>>, last_coin |-> 0,
   mints_remaining |-> totalMints, position |-> position]

DefaultCoinCache == CoinCache(0, [x |-> 0, y |-> 0])

\* leaveCoin without the push: the coin handed over is dropped.
leaveCoin_Drops(c, coin) == c

leaveCoin(c, coin) == [c EXCEPT !.inventory = Append(@, coin)]

\* Variants of takeCoin with one slip each, used to see that the properties
\* below tell the code from its near misses.
takeCoin_NoIncrement(c) ==
  IF Len(c.inventory) # 0
  THEN [coin  |-> <<c.inventory[Len(c.inventory)]>>,
        cache |-> [c EXCEPT !.inventory = SubSeq(@, 1, Len(@) - 1)]]
  ELSE IF c.mints_remaining > 0
  THEN [coin  |-> <<[origin |-> c.position, coin_number |-> c.last_coin]>>,
        cache |-> [c EXCEPT !.mints_remaining = @ - 1]]
  ELSE [coin |-> <<>>, cache |-> c]

takeCoin_NoDecrement(c) ==
  IF Len(c.inventory) # 0
  THEN [coin  |-> <<c.inventory[Len(c.inventory)]>>,
        cache |-> [c EXCEPT !.inventory = SubSeq(@, 1, Len(@) - 1)]]
  ELSE IF c.mints_remaining > 0
  THEN [coin  |-> <<[origin |-> c.position, coin_number |-> c.last_coin]>>,
        cache |-> [c EXCEPT !.last_coin = @ + 1]]
  ELSE [coin |-> <<>>, cache |-> c]

takeCoin_MintFirst(c) ==
  IF c.mints_remaining > 0
  THEN [coin  |-> <<[origin |-> c.position, coin_number |-> c.last_coin]>>,
        cache |-> [c EXCEPT !.mints_remaining = @ - 1, !.last_coin = @ + 1]]
  ELSE IF Len(c.inventory) # 0
  THEN [coin  |-> <<c.inventory[Len(c.inventory)]>>,
        cache |-> [c EXCEPT !.inventory = SubSeq(@, 1, Len(@) - 1)]]
  ELSE [coin |-> <<>>, cache |-> c]

takeCoin_FIFO(c) ==
  IF Len(c.inventory) # 0
  THEN [coin  |-> <<c.inventory[1]>>,
        cache |-> [c EXCEPT !.inventory = SubSeq(@, 2, Len(@))]]
  ELSE IF c.mints_remaining > 0
  THEN [coin  |-> <<[origin |-> c.position, coin_number |-> c.last_coin]>>,
        cache |-> [c EXCEPT !.mints_remaining = @ - 1, !.last_coin = @ + 1]]
  ELSE [coin |-> <<>>, cache |-> c]

takeCoin_MintWhenExhausted(c) ==
  IF Len(c.inventory) # 0
  THEN [coin  |-> <<c.inventory[Len(c.inventory)]>>,
        cache |-> [c EXCEPT !.inventory = SubSeq(@, 1, Len(@) - 1)]]
  ELSE IF c.mints_remaining >= 0
  THEN [coin  |-> <<[origin |-> c.position, coin_number |-> c.last_coin]>>,
        cache |-> [c EXCEPT !.mints_remaining = @ - 1, !.last_coin = @ + 1]]
  ELSE [coin |-> <<>>, cache |-> c]

\* takeCoin returns the coin (or nothing) and the cache it leaves.
takeCoin(c) ==
  IF Len(c.inventory) # 0
  THEN [coin  |-> <<c.inventory[Len(c.inventory)]>>,
        cache |-> [c EXCEPT !.inventory = SubSeq(@, 1, Len(@) - 1)]]
  ELSE IF c.mints_remaining > 0
  THEN [coin  |-> <<[origin |-> c.position, coin_number |-> c.last_coin]>>,
        cache |-> [c EXCEPT !.mints_remaining = @ - 1, !.last_coin = @ + 1]]
  ELSE [coin |-> <<>>, cache |-> c]

\* JSON text of a Vector2 and of a Coin, and their parses.
StringifyVector2(v) == <<v.x, v.y>>
ParseVector2(t) == [x |-> t[1], y |-> t[2]]
StringifyCoin(coin) == <<StringifyVector2(coin.origin), coin.coin_number>>
ParseCoin(t) == [origin |-> ParseVector2(t[1]), coin_number |-> t[2]]
StringifyCoins(coins) == [i \in 1..Len(coins) |-> StringifyCoin(coins[i])]
ParseCoins(t) == [i \in 1..Len(t) |-> ParseCoin(t[i])]

\* JSON.stringify(this): the four own properties in creation order.
toMomento(c) ==
  <<StringifyCoins(c.inventory), c.last_coin, c.mints_remaining,
    StringifyVector2(c.position)>>

\* fromMomento with last_coin and mints_remaining read from each other's
\* place.
fromMomento_Swapped(c, momento) ==
  [c EXCEPT !.inventory = ParseCoins(momento[1]),
            !.last_coin = momento[3],
            !.mints_remaining = momento[2],
            !.position = ParseVector2(momento[4])]

fromMomento(c, momento) ==
  [c EXCEPT !.inventory = ParseCoins(momento[1]),
            !.last_coin = momento[2],
            !.mints_remaining = momento[3],
            !.position = ParseVector2(momento[4])]

\* ---------------------------------------------------------- Memento Store

\* A Map<string, string> is the sequence of its entries [key, value] in
\* insertion order.  The key `${x},${y}` is the pair <<x, y>>.
PosKey(position) == <<position.x, position.y>>

MapHas(m, key) == \E i \in 1..Len(m) : m[i].key = key
MapGet(m, key) == m[CHOOSE i \in 1..Len(m) : m[i].key = key].value
MapSet(m, key, value) ==
  IF MapHas(m, key)
  THEN [i \in 1..Len(m) |->
          IF m[i].key = key THEN [key |-> key, value |-> value] ELSE m[i]]
  ELSE Append(m, [key |-> key, value |-> value])
MapKeys(m) == {m[i].key : i \in 1..Len(m)}

\* getOrCreateCache seeding Math.floor(luck(posKey) * 10) mints.
getOrCreateCache_WrongScale(store, position) ==
  LET posKey == PosKey(position)
      store1 == IF ~MapHas(store, posKey)
                THEN MapSet(store, posKey,
                       toMomento(CoinCache((luck(posKey) * 10) \div 1000,
                                           position)))
                ELSE store
  IN  [store |-> store1,
       cache |-> fromMomento(DefaultCoinCache, MapGet(store1, posKey))]

\* getOrCreateCache without the momentos.has test.
getOrCreateCache_AlwaysCreate(store, position) ==
  LET posKey == PosKey(position)
      store1 == MapSet(store, posKey,
                  toMomento(CoinCache((luck(posKey) * 100) \div 1000,
                                      position)))
  IN  [store |-> store1,
       cache |-> fromMomento(DefaultCoinCache, MapGet(store1, posKey))]

\* getOrCreateCache adding a fresh entry on every call, whether or not the
\* key has one.
getOrCreateCache_AddsEveryCall(store, position) ==
  LET posKey == PosKey(position)
      store1 == Append(store,
                  [key |-> posKey,
                   value |-> toMomento(CoinCache((luck(posKey) * 100) \div 1000,
                                                 position))])
  IN  [store |-> store1,
       cache |-> fromMomento(DefaultCoinCache, MapGet(store1, posKey))]

\* getOrCreateCache returns the store it leaves and the view it built.
getOrCreateCache(store, position) ==
  LET posKey == PosKey(position)
      store1 == IF ~MapHas(store, posKey)
                THEN MapSet(store, posKey,
                       toMomento(CoinCache((luck(posKey) * 100) \div 1000,
                                           position)))
                ELSE store
  IN  [store |-> store1,
       cache |-> fromMomento(DefaultCoinCache, MapGet(store1, posKey))]

toMapCoordinates(position) ==
  [x |-> position.x \div TILE_DEGREES, y |-> position.y \div TILE_DEGREES]

\* --------------------------------------------------------- session state

VARIABLES
  momentos,        \* Map<string, string>: the Memento Store
  playerCoins,     \* Coin[]: the player inventory
  layers,          \* cacheLayerGroup: the views bound to the rendered popups
  playerMarker,    \* the position of the player marker
  playerPolyline,  \* the positions of the player path
  localStorage,    \* the four persisted entries
  watching,        \* a geolocation watch is registered
  event,           \* the last event handled and what it returned
  cc,              \* CacheSpec: one CoinCache object
  log              \* CacheSpec: the calls made on cc and their results

gameVars == <<momentos, playerCoins, layers, playerMarker, playerPolyline,
              localStorage, watching, event>>
unitVars == <<cc, log>>
vars == <<momentos, playerCoins, layers, playerMarker, playerPolyline,
          localStorage, watching, event, cc, log>>

\* ------------------------------------------------------------ generation

\* createPopup binds the view of the cell to the popup's two buttons.
createPopup(store, position) == getOrCreateCache(store, position)

\* spawnCoinCache adding two rectangles, each with a popup of its own.
spawnCoinCache_Twice(st, position) ==
  LET r == createPopup(st.momentos, position)
      again == createPopup(r.store, position)
  IN  [momentos |-> again.store,
       layers |-> Append(Append(st.layers, r.cache), again.cache)]

\* st is [momentos, layers]: the store and the layer group.
spawnCoinCache(st, position) ==
  LET r == createPopup(st.momentos, position)
  IN  [momentos |-> r.store, layers |-> Append(st.layers, r.cache)]

\* The cells the two nested loops visit, in the order they visit them:
\* x outermost, both from -NEIGHBORHOOD_SIZE up to NEIGHBORHOOD_SIZE - 1.
NeighborhoodCells(playerMapPos) ==
  [k \in 1..((2 * NEIGHBORHOOD_SIZE) * (2 * NEIGHBORHOOD_SIZE)) |->
     [x |-> playerMapPos.x - NEIGHBORHOOD_SIZE
              + ((k - 1) \div (2 * NEIGHBORHOOD_SIZE)),
      y |-> playerMapPos.y - NEIGHBORHOOD_SIZE
              + ((k - 1) % (2 * NEIGHBORHOOD_SIZE))]]

\* The test of the loop body with <= for <.
IsSpawnSite_Inclusive(cell) == luck(PosKey(cell)) <= CACHE_SPAWN_PROBABILITY

\* The test of the loop body.
IsSpawnSite(cell) == luck(PosKey(cell)) < CACHE_SPAWN_PROBABILITY

\* The cells the loops call spawnCoinCache on, in loop order.
LoopSites(playerMapPos) ==
  SelectSeq(NeighborhoodCells(playerMapPos), IsSpawnSite)

\* The loop bounds with <= for < at the upper end.
InNeighborhood_Inclusive(cell, playerMapPos) ==
  /\ playerMapPos.x - NEIGHBORHOOD_SIZE <= cell.x
  /\ cell.x <= playerMapPos.x + NEIGHBORHOOD_SIZE
  /\ playerMapPos.y - NEIGHBORHOOD_SIZE <= cell.y
  /\ cell.y <= playerMapPos.y + NEIGHBORHOOD_SIZE

\* The same sequence, computed without walking the 256 cells: off LuckTable
\* luck is 500 and the test fails, so the cells that pass are the cells of
\* LuckTable inside the loop bounds, and loop order is x first, then y.
\* (SitesAreLoopSites below checks the two agree.)
InNeighborhood(cell, playerMapPos) ==
  /\ playerMapPos.x - NEIGHBORHOOD_SIZE <= cell.x
  /\ cell.x < playerMapPos.x + NEIGHBORHOOD_SIZE
  /\ playerMapPos.y - NEIGHBORHOOD_SIZE <= cell.y
  /\ cell.y < playerMapPos.y + NEIGHBORHOOD_SIZE

VisitedBefore(a, b) == a.x < b.x \/ (a.x = b.x /\ a.y < b.y)

RECURSIVE InLoopOrder(_)
InLoopOrder(cells) ==
  IF cells = {} THEN <<>>
  ELSE LET first == CHOOSE c \in cells :
                      \A d \in cells \ {c} : VisitedBefore(c, d)
       IN  <<first>> \o InLoopOrder(cells \ {first})

SpawnSites(playerMapPos) ==
  InLoopOrder({c \in {ParseVector2(key) : key \in DOMAIN LuckTable} :
                 InNeighborhood(c, playerMapPos) /\ IsSpawnSite(c)})

\* The loop body run on the spawn sites, in loop order.
RECURSIVE SpawnAll(_, _, _)
SpawnAll(st, sites, i) ==
  IF i > Len(sites) THEN st
  ELSE SpawnAll(spawnCoinCache(st, sites[i]), sites, i + 1)

\* clearLayers, then the loops.
generateAroundPlayer(store, position) ==
  SpawnAll([momentos |-> store, layers |-> <<>>],
           SpawnSites(toMapCoordinates(position)), 1)

\* ------------------------------------------------------------ persistence

\* JSON.stringify(Array.from(momentos.entries())): a list of [key, value].
StringifyEntries(m) == [i \in 1..Len(m) |-> <<m[i].key, m[i].value>>]
StringifyLatLng(p) == <<p.x, p.y>>
ParseLatLng(t) == [x |-> t[1], y |-> t[2]]
StringifyPath(path) == [i \in 1..Len(path) |-> StringifyLatLng(path[i])]
ParsePath(t) == [i \in 1..Len(t) |-> ParseLatLng(t[i])]

EmptyStorage ==
  [momentos |-> <<>>, playerCoins |-> <<>>, playerPath |-> <<>>,
   playerLocation |-> <<>>]

saveGame(store, coins, path, marker) ==
  [momentos       |-> <<StringifyEntries(store)>>,
   playerCoins    |-> <<StringifyCoins(coins)>>,
   playerPath     |-> <<StringifyPath(path)>>,
   playerLocation |-> <<StringifyVector2(marker)>>]

\* parsedMomentos.forEach((value, key) => momentos.set(key, value))
RECURSIVE SetAll(_, _, _)
SetAll(m, entries, i) ==
  IF i > Len(entries) THEN m
  ELSE SetAll(MapSet(m, entries[i][1], entries[i][2]), entries, i + 1)

\* loadGame on a fresh page: the store, inventory, path and marker it leaves.
loadGame(storage) ==
  LET store == IF storage.momentos # <<>>
               THEN SetAll(<<>>, storage.momentos[1], 1)
               ELSE <<>>
      path1 == IF storage.playerPath # <<>>
               THEN ParsePath(storage.playerPath[1])
               ELSE <<PLAYER_START>>
      coins == IF storage.playerCoins # <<>>
               THEN ParseCoins(storage.playerCoins[1])
               ELSE <<>>
      hasLoc == storage.playerLocation # <<>>
      loc   == ParseVector2(storage.playerLocation[1])
  IN  [momentos |-> store,
       playerCoins |-> coins,
       playerPolyline |-> IF hasLoc THEN Append(path1, loc) ELSE path1,
       playerMarker |-> IF hasLoc THEN loc ELSE PLAYER_START]

\* The page script run top to bottom: loadGame(), then
\* generateAroundPlayer(PLAYER_START).
Startup(storage) ==
  LET g == loadGame(storage)
      st == generateAroundPlayer(g.momentos, PLAYER_START)
  IN  [momentos |-> st.momentos, layers |-> st.layers,
       playerCoins |-> g.playerCoins,
       playerPolyline |-> g.playerPolyline,
       playerMarker |-> g.playerMarker]

Event(op, idx, ret) == [op |-> op, idx |-> idx, ret |-> ret]

GameInit ==
  LET s == Startup(EmptyStorage)
  IN  /\ momentos = s.momentos
      /\ layers = s.layers
      /\ playerCoins = s.playerCoins
      /\ playerPolyline = s.playerPolyline
      /\ playerMarker = s.playerMarker
      /\ localStorage = EmptyStorage
      /\ watching = FALSE
      /\ event = Event("load", 0, <<>>)

Init ==
  /\ GameInit
  /\ cc = DefaultCoinCache
  /\ log = <<>>

\* ---------------------------------------------------------------- events

\* The four movement buttons: north, south, west, east, as <<dx, dy>>.
Directions ==
  << <<0, MOVE_STEP>>, <<0, -MOVE_STEP>>, <<-MOVE_STEP, 0>>, <<MOVE_STEP, 0>> >>

\* The positions the geolocation watch reports.
GPSLocations ==
  << [x |-> 739788, y |-> -2441256], [x |-> 201, y |-> 200] >>

\* movePlayerToLocation placing the marker at (lng, lat).
movePlayerToLocation_Swapped(store, path, lat, lng) ==
  LET newPos == [x |-> lng, y |-> lat]
      st == generateAroundPlayer(store, [x |-> lat, y |-> lng])
  IN  [momentos |-> st.momentos, layers |-> st.layers,
       playerMarker |-> newPos, playerPolyline |-> Append(path, newPos)]

\* leafletMap.movePlayerToLocation, then generateAroundPlayer.
movePlayerToLocation(store, path, lat, lng) ==
  LET newPos == [x |-> lat, y |-> lng]
      st == generateAroundPlayer(store, [x |-> lat, y |-> lng])
  IN  [momentos |-> st.momentos, layers |-> st.layers,
       playerMarker |-> newPos, playerPolyline |-> Append(path, newPos)]

\* A click on one of the four movement buttons.
MovePlayer(d) ==
  /\ Len(playerPolyline) < MaxPath
  /\ LET dx == Directions[d][1]
         dy == Directions[d][2]
         newLat == playerMarker.x + dy
         newLng == playerMarker.y + dx
         m == movePlayerToLocation(momentos, playerPolyline, newLat, newLng)
     IN  /\ momentos' = m.momentos
         /\ layers' = m.layers
         /\ playerMarker' = m.playerMarker
         /\ playerPolyline' = m.playerPolyline
         /\ localStorage' = saveGame(m.momentos, playerCoins,
                                     m.playerPolyline, m.playerMarker)
  /\ event' = Event("move", d, <<>>)
  /\ UNCHANGED <<playerCoins, watching, cc, log>>

\* A click on the GPS button; geolocation says whether the browser has it.
EnableGPS(geolocation) ==
  /\ watching' = (watching \/ geolocation)
  /\ event' = Event("enableGPS", IF geolocation THEN 1 ELSE 0, <<>>)
  /\ UNCHANGED <<momentos, playerCoins, layers, playerMarker, playerPolyline,
                 localStorage, cc, log>>

\* The success callback of the geolocation watch.
GPSUpdate(g) ==
  /\ watching
  /\ Len(playerPolyline) < MaxPath
  /\ LET m == movePlayerToLocation(momentos, playerPolyline,
                                   GPSLocations[g].x, GPSLocations[g].y)
     IN  /\ momentos' = m.momentos
         /\ layers' = m.layers
         /\ playerMarker' = m.playerMarker
         /\ playerPolyline' = m.playerPolyline
  /\ event' = Event("gps", g, <<>>)
  /\ UNCHANGED <<playerCoins, localStorage, watching, cc, log>>

\* handleDeposit without the length test: pop() of an empty inventory gives
\* undefined, written here as the coin numbered -1 of the cache's own cell.
handleDeposit_NoGuard(coinCache, coins, store) ==
  LET coin == IF Len(coins) > 0 THEN coins[Len(coins)]
              ELSE [origin |-> coinCache.position, coin_number |-> -1]
      left == leaveCoin(coinCache, coin)
  IN  [cache |-> left,
       coins |-> SubSeq(coins, 1, Len(coins) - 1),
       store |-> MapSet(store, PosKey(left.position), toMomento(left)),
       ret   |-> <<coin>>,
       saved |-> TRUE]

\* handleCollect without the momentos.set.
handleCollect_NoWriteBack(coinCache, coins, store) ==
  LET r == takeCoin(coinCache)
  IN  IF r.coin # <<>>
      THEN [cache |-> r.cache, coins |-> Append(coins, r.coin[1]),
            store |-> store, ret |-> r.coin, saved |-> TRUE]
      ELSE [cache |-> r.cache, coins |-> coins, store |-> store,
            ret |-> <<>>, saved |-> FALSE]

\* handleDeposit with shift() for pop(): the oldest coin leaves the
\* inventory.
handleDeposit_Shift(coinCache, coins, store) ==
  IF Len(coins) > 0
  THEN LET coin == coins[1]
           left == leaveCoin(coinCache, coin)
       IN  [cache |-> left,
            coins |-> SubSeq(coins, 2, Len(coins)),
            store |-> MapSet(store, PosKey(left.position), toMomento(left)),
            ret   |-> <<coin>>,
            saved |-> TRUE]
  ELSE [cache |-> coinCache, coins |-> coins, store |-> store,
        ret |-> <<>>, saved |-> FALSE]

\* handleDeposit writing the memento under the key of the coin's origin.
handleDeposit_KeyOfCoin(coinCache, coins, store) ==
  IF Len(coins) > 0
  THEN LET coin == coins[Len(coins)]
           left == leaveCoin(coinCache, coin)
       IN  [cache |-> left,
            coins |-> SubSeq(coins, 1, Len(coins) - 1),
            store |-> MapSet(store, PosKey(coin.origin), toMomento(left)),
            ret   |-> <<coin>>,
            saved |-> TRUE]
  ELSE [cache |-> coinCache, coins |-> coins, store |-> store,
        ret |-> <<>>, saved |-> FALSE]

\* handleDeposit on a view: the view, inventory and store it leaves, and
\* whether it went on to saveGame.
handleDeposit(coinCache, coins, store) ==
  IF Len(coins) > 0
  THEN LET coin == coins[Len(coins)]
           left == leaveCoin(coinCache, coin)
       IN  [cache |-> left,
            coins |-> SubSeq(coins, 1, Len(coins) - 1),
            store |-> MapSet(store, PosKey(left.position), toMomento(left)),
            ret   |-> <<coin>>,
            saved |-> TRUE]
  ELSE [cache |-> coinCache, coins |-> coins, store |-> store,
        ret |-> <<>>, saved |-> FALSE]

\* handleCollect on a view, likewise.
handleCollect(coinCache, coins, store) ==
  LET r == takeCoin(coinCache)
  IN  IF r.coin # <<>>
      THEN [cache |-> r.cache,
            coins |-> Append(coins, r.coin[1]),
            store |-> MapSet(store, PosKey(r.cache.position),
                             toMomento(r.cache)),
            ret   |-> r.coin,
            saved |-> TRUE]
      ELSE [cache |-> r.cache, coins |-> coins, store |-> store,
            ret |-> <<>>, saved |-> FALSE]

\* What either handler leaves behind on layer i.
Handled(op, i, h) ==
  /\ layers' = [layers EXCEPT ![i] = h.cache]
  /\ playerCoins' = h.coins
  /\ momentos' = h.store
  /\ localStorage' = IF h.saved
                     THEN saveGame(h.store, h.coins, playerPolyline,
                                   playerMarker)
                     ELSE localStorage
  /\ event' = Event(op, i, h.ret)
  /\ UNCHANGED <<playerMarker, playerPolyline, watching, cc, log>>

\* A click on the Deposit button of the popup of layer i.
HandleDeposit(i) ==
  /\ i \in 1..Len(layers)
  /\ Handled("deposit", i, handleDeposit(layers[i], playerCoins, momentos))

\* A click on the Collect button of the popup of layer i.
HandleCollect(i) ==
  /\ i \in 1..Len(layers)
  /\ Handled("collect", i, handleCollect(layers[i], playerCoins, momentos))

\* The page is loaded again over the storage it finds.
Restart(storage, op) ==
  LET s == Startup(storage)
  IN  /\ Len(s.playerPolyline) <= MaxPath
      /\ momentos' = s.momentos
      /\ layers' = s.layers
      /\ playerCoins' = s.playerCoins
      /\ playerPolyline' = s.playerPolyline
      /\ playerMarker' = s.playerMarker
      /\ localStorage' = storage
      /\ watching' = FALSE
      /\ event' = Event(op, 0, <<>>)
      /\ UNCHANGED <<cc, log>>

Reload == Restart(localStorage, "reload")

\* resetGame without the localStorage.clear(): the page reloads over the
\* storage it had.
ResetGame_KeepsStorage(confirmed) ==
  IF ~confirmed
  THEN /\ event' = Event("declined", 0, <<>>)
       /\ UNCHANGED <<momentos, playerCoins, layers, playerMarker,
                      playerPolyline, localStorage, watching, cc, log>>
  ELSE Restart(localStorage, "reset")

\* A click on the reset button; confirmed is the answer to confirm().
ResetGame(confirmed) ==
  IF ~confirmed
  THEN /\ event' = Event("declined", 0, <<>>)
       /\ UNCHANGED <<momentos, playerCoins, layers, playerMarker,
                      playerPolyline, localStorage, watching, cc, log>>
  ELSE Restart(EmptyStorage, "reset")

Next ==
  \/ \E d \in 1..Len(Directions) : MovePlayer(d)
  \/ \E geolocation \in BOOLEAN : EnableGPS(geolocation)
  \/ \E g \in 1..Len(GPSLocations) : GPSUpdate(g)
  \/ \E i \in 1..Len(layers) : HandleDeposit(i)
  \/ \E i \in 1..Len(layers) : HandleCollect(i)
  \/ Reload
  \/ \E confirmed \in BOOLEAN : ResetGame(confirmed)

Spec == Init /\ [][Next]_vars

\* ------------------------------------------- one CoinCache object, alone

\* The cells and coins the lone CoinCache is tried on.
UnitCells == {[x |-> 5, y |-> 5], [x |-> -3, y |-> 4]}
UnitCoins == {[origin |-> [x |-> 7, y |-> -7], coin_number |-> n] : n \in 0..1}

RECURSIVE SeqsUpTo(_, _)
SeqsUpTo(S, n) ==
  IF n = 0 THEN {<<>>}
  ELSE LET shorter == SeqsUpTo(S, n - 1)
       IN  shorter \cup {Append(q, e) : q \in shorter, e \in S}

CacheStates ==
  {[inventory |-> inv, last_coin |-> l, mints_remaining |-> m, position |-> p] :
     inv \in SeqsUpTo(UnitCoins, MaxInv), l \in 0..MaxCount,
     m \in 0..MaxCount, p \in UnitCells}

\* A call on cc: the method, its argument or result, the object before it.
Call(op, coin, pre) == [op |-> op, coin |-> coin, pre |-> pre]

CacheInit ==
  /\ GameInit
  /\ cc \in CacheStates
  /\ log = <<>>

CallLeaveCoin(coin) ==
  /\ Len(log) < MaxOps
  /\ cc' = leaveCoin(cc, coin)
  /\ log' = Append(log, Call("leaveCoin", <<coin>>, cc))
  /\ UNCHANGED gameVars

CallTakeCoin ==
  /\ Len(log) < MaxOps
  /\ cc' = takeCoin(cc).cache
  /\ log' = Append(log, Call("takeCoin", takeCoin(cc).coin, cc))
  /\ UNCHANGED gameVars

\* new CoinCache().fromMomento(cc.toMomento()), as getOrCreateCache does.
CallRoundTrip ==
  /\ Len(log) < MaxOps
  /\ cc' = fromMomento(DefaultCoinCache, toMomento(cc))
  /\ log' = Append(log, Call("roundTrip", <<>>, cc))
  /\ UNCHANGED gameVars

CacheNext ==
  \/ \E coin \in UnitCoins : CallLeaveCoin(coin)
  \/ CallTakeCoin
  \/ CallRoundTrip

CacheSpec == CacheInit /\ [][CacheNext]_vars

\* ------------------------------- the cache of one cell, from its creation

\* The cell whose key hashes to 0.05.
ScenarioCell == [x |-> 5, y |-> 5]

\* The view getOrCreateCache builds for the cell on an empty store.
ScenarioInit ==
  /\ GameInit
  /\ cc = getOrCreateCache(<<>>, ScenarioCell).cache
  /\ log = <<>>

ScenarioLeaveCoin(coin) ==
  /\ Len(log) < MaxScenarioOps
  /\ cc' = leaveCoin(cc, coin)
  /\ log' = Append(log, Call("leaveCoin", <<coin>>, cc))
  /\ UNCHANGED gameVars

ScenarioTakeCoin ==
  /\ Len(log) < MaxScenarioOps
  /\ cc' = takeCoin(cc).cache
  /\ log' = Append(log, Call("takeCoin", takeCoin(cc).coin, cc))
  /\ UNCHANGED gameVars

ScenarioNext ==
  \/ \E coin \in UnitCoins : ScenarioLeaveCoin(coin)
  \/ ScenarioTakeCoin

ScenarioSpec == ScenarioInit /\ [][ScenarioNext]_vars

\* --------------------------- the caches of one pass, each from its creation

\* Player positions whose neighbourhoods hold the cells around (5, 5), with
\* luck from 0 up to the spawn threshold.
SeedPositions == {[x |-> 10, y |-> 10], [x |-> -4, y |-> 11]}

\* One of the views a generation pass on an empty store builds.
SeedInit ==
  /\ GameInit
  /\ \E p \in SeedPositions :
       LET st == generateAroundPlayer(<<>>, p)
       IN  \E i \in 1..Len(st.layers) : cc = st.layers[i]
  /\ log = <<>>

SeedSpec == SeedInit /\ [][ScenarioNext]_vars

\* ----------------------------------------------------------- properties

\* The cache states the Memento Store holds, and the coins they hold.
StoredCache(store, key) == fromMomento(DefaultCoinCache, MapGet(store, key))

RECURSIVE StoredCoins(_, _)
StoredCoins(store, i) ==
  IF i > Len(store) THEN <<>>
  ELSE fromMomento(DefaultCoinCache, store[i].value).inventory
         \o StoredCoins(store, i + 1)

HeldCoins == playerCoins \o StoredCoins(momentos, 1)

\* C1: no coin identity (origin, coin_number) occurs twice among the player
\* inventory and the inventories of all caches of the Memento Store.
C1_CoinHeldOnce ==
  \A i, j \in 1..Len(HeldCoins) : i # j => HeldCoins[i] # HeldCoins[j]

\* The player and a cache both hold coins, after a reload.
C1_Witness ==
  /\ event.op = "reload"
  /\ Len(playerCoins) > 0
  /\ Len(StoredCoins(momentos, 1)) > 0

LastCall == log[Len(log)]

\* C2: takeCoin on a non-empty inventory returns its last coin and leaves
\* mints_remaining and last_coin alone; a counter moves only when the
\* inventory was empty and mints_remaining > 0, and the coin returned then
\* is numbered with the old last_coin.
C2_DrainBeforeMint ==
  (Len(log) > 0 /\ LastCall.op = "takeCoin") =>
    LET pre == LastCall.pre
    IN  /\ Len(pre.inventory) > 0 =>
             /\ LastCall.coin = <<pre.inventory[Len(pre.inventory)]>>
             /\ cc.inventory = SubSeq(pre.inventory, 1, Len(pre.inventory) - 1)
             /\ cc.mints_remaining = pre.mints_remaining
             /\ cc.last_coin = pre.last_coin
        /\ (cc.mints_remaining # pre.mints_remaining
              \/ cc.last_coin # pre.last_coin) =>
             /\ Len(pre.inventory) = 0
             /\ pre.mints_remaining > 0
             /\ LastCall.coin = <<[origin |-> pre.position,
                                   coin_number |-> pre.last_coin]>>
             /\ cc.inventory = <<>>

\* takeCoin was called on a cache that had both coins and mints left.
C2_Witness ==
  /\ Len(log) > 0
  /\ LastCall.op = "takeCoin"
  /\ Len(LastCall.pre.inventory) > 0
  /\ LastCall.pre.mints_remaining > 0

\* Calls i .. i+n-1 of the log are leaveCoin and the n after them takeCoin.
LeftThenTaken(i, n) ==
  /\ i + 2 * n - 1 <= Len(log)
  /\ \A k \in 0..(n - 1) : log[i + k].op = "leaveCoin"
  /\ \A k \in 0..(n - 1) : log[i + n + k].op = "takeCoin"

\* C3: n leaveCoin calls followed at once by n takeCoin calls give the coins
\* back in the reverse of the order they were left.
C3_LIFO ==
  \A i \in 1..Len(log) : \A n \in 1..Len(log) :
    LeftThenTaken(i, n) =>
      \A k \in 0..(n - 1) : log[i + n + k].coin = log[i + n - 1 - k].coin

\* A then B were left in an empty cache and two coins taken.
C3_Witness ==
  /\ Len(log) = 4
  /\ LeftThenTaken(1, 2)
  /\ log[1].pre.inventory = <<>>
  /\ log[1].coin # log[2].coin

\* The mint allowance the store key was seeded with.
Allowance(key) == (luck(key) * 100) \div 1000

MintAccounting(store) ==
  \A key \in MapKeys(store) :
    /\ StoredCache(store, key).mints_remaining >= 0
    /\ StoredCache(store, key).mints_remaining
         + StoredCache(store, key).last_coin = Allowance(key)

MintStep ==
  /\ MintAccounting(momentos)
  /\ MintAccounting(momentos')
  /\ event'.op # "reset" =>
       \A key \in MapKeys(momentos) \cap MapKeys(momentos') :
         LET old == StoredCache(momentos, key)
             new == StoredCache(momentos', key)
         IN  /\ new.mints_remaining <= old.mints_remaining
             /\ new.last_coin >= old.last_coin
             /\ new.mints_remaining # old.mints_remaining =>
                  /\ new.mints_remaining = old.mints_remaining - 1
                  /\ new.last_coin = old.last_coin + 1
             /\ new.last_coin # old.last_coin =>
                  new.mints_remaining = old.mints_remaining - 1

\* C4: over every event but a confirmed reset, no cache's mints_remaining
\* rises, none falls below 0, no last_coin falls, a mint moves both by one,
\* and mints_remaining + last_coin stays the allowance floor(luck * 100).
C4_MintMonotone == [][MintStep]_vars

\* A cache that has minted is found again by a reload.
C4_Witness ==
  /\ event.op = "reload"
  /\ \E key \in MapKeys(momentos) : StoredCache(momentos, key).last_coin > 0

Exhausted(c) == Len(c.inventory) = 0 /\ c.mints_remaining = 0

\* C5: a collect on a view with no coins and no mints left returns nothing
\* and changes neither the view, the store, the player inventory nor the
\* persisted entries.
C5_CollectExhausted ==
  [][(event'.op = "collect" /\ Exhausted(layers[event'.idx])) =>
       /\ event'.ret = <<>>
       /\ UNCHANGED <<layers, momentos, playerCoins, localStorage>>]_vars

\* A collect on an exhausted view has returned nothing.
C5_Witness ==
  /\ event.op = "collect"
  /\ event.ret = <<>>
  /\ Exhausted(layers[event.idx])

\* C6: a deposit made with an empty player inventory changes neither the
\* view, the store, the player inventory nor the persisted entries.
C6_DepositEmpty ==
  [][(event'.op = "deposit" /\ Len(playerCoins) = 0) =>
       UNCHANGED <<layers, momentos, playerCoins, localStorage>>]_vars

\* A deposit was asked for with nothing to deposit.
C6_Witness ==
  /\ event.op = "deposit"
  /\ event.ret = <<>>
  /\ Len(playerCoins) = 0

\* C7: after every event, each live view is what the memento stored under
\* its cell key deserializes to.
C7_WriteThrough ==
  \A i \in 1..Len(layers) :
    /\ MapHas(momentos, PosKey(layers[i].position))
    /\ StoredCache(momentos, PosKey(layers[i].position)) = layers[i]

\* A collect has changed a view.
C7_Witness ==
  /\ event.op = "collect"
  /\ event.ret # <<>>
  /\ layers[event.idx].last_coin > 0

\* C8: a fresh CoinCache given fromMomento(S.toMomento()) has the four
\* fields of S, and its toMomento() is that of S.
C8_RoundTrip ==
  (Len(log) > 0 /\ LastCall.op = "roundTrip") =>
    /\ cc.inventory = LastCall.pre.inventory
    /\ cc.last_coin = LastCall.pre.last_coin
    /\ cc.mints_remaining = LastCall.pre.mints_remaining
    /\ cc.position = LastCall.pre.position
    /\ toMomento(cc) = toMomento(LastCall.pre)

\* A cache holding a coin, with different counters, went the round trip.
C8_Witness ==
  /\ Len(log) > 0
  /\ LastCall.op = "roundTrip"
  /\ Len(LastCall.pre.inventory) > 0
  /\ LastCall.pre.last_coin # LastCall.pre.mints_remaining

\* The store a generation pass starts from: the store in memory for a move
\* or a GPS update, the store loadGame builds for a page load.
StoreBeforePass ==
  IF event'.op = "reset" THEN <<>>
  ELSE IF event'.op = "reload" THEN loadGame(localStorage).momentos
  ELSE momentos

IsPass == event'.op \in {"move", "gps", "reload", "reset"}

\* C9: the getOrCreateCache calls of a generation pass add, for each cell
\* that had no entry, one entry under its key, holding an empty inventory,
\* last_coin 0, floor(luck(key) * 100) mints and the cell as position; the
\* view built is that state; every other entry is as it was.
C9_CreateSeedsEntry ==
  [][IsPass =>
       /\ \A key \in MapKeys(StoreBeforePass) :
            /\ MapHas(momentos', key)
            /\ MapGet(momentos', key) = MapGet(StoreBeforePass, key)
       /\ \A key \in MapKeys(momentos') \ MapKeys(StoreBeforePass) :
            /\ Cardinality({i \in 1..Len(momentos') :
                              momentos'[i].key = key}) = 1
            /\ StoredCache(momentos', key) =
                 [inventory |-> <<>>, last_coin |-> 0,
                  mints_remaining |-> (luck(key) * 100) \div 1000,
                  position |-> ParseVector2(key)]
            /\ \E i \in 1..Len(layers') :
                 layers'[i] = StoredCache(momentos', key)]_vars

\* A pass has created the cache of a cell with mints to give, next to
\* entries that were there before it.
C9_Witness ==
  /\ event.op = "gps"
  /\ MapHas(momentos, <<100, 100>>)
  /\ Len(momentos) > 1
  /\ StoredCache(momentos, <<100, 100>>).mints_remaining > 0

\* C10: a generation pass leaves the memento of every cell that has one as
\* it was, and the views it builds for such cells show that memento.
C10_RegenerationPreserves ==
  [][event'.op \in {"move", "gps"} =>
       /\ \A key \in MapKeys(momentos) :
            /\ MapHas(momentos', key)
            /\ StoredCache(momentos', key) = StoredCache(momentos, key)
       /\ \A i \in 1..Len(layers') :
            MapHas(momentos, PosKey(layers'[i].position)) =>
              layers'[i] = StoredCache(momentos, PosKey(layers'[i].position))
     ]_vars

\* The player has moved away from a cache it had changed and back to it.
C10_Witness ==
  /\ event.op = "move"
  /\ Len(playerPolyline) = 3
  /\ \E i \in 1..Len(layers) :
       /\ layers[i].last_coin > 0
       /\ Len(layers[i].inventory) > 0
       /\ ~InNeighborhood(layers[i].position,
                          toMapCoordinates(playerPolyline[2]))

\* The position the last generation pass was run for, when the last event
\* ran one: the new location for a move or a GPS update, PLAYER_START for a
\* page load.
LastEventWasPass == event.op \in {"move", "gps", "load", "reload", "reset"}
LastPassPosition ==
  IF event.op \in {"move", "gps"} THEN playerMarker ELSE PLAYER_START

RenderedSites(ls) == [i \in 1..Len(ls) |-> ls[i].position]

\* C11: a generation pass that follows at once a pass for the same player
\* cell renders the same sites and leaves the Memento Store as it found it.
C11_GenerationIdempotent ==
  [][(/\ LastEventWasPass
      /\ event'.op \in {"move", "gps"}
      /\ toMapCoordinates(playerMarker') = toMapCoordinates(LastPassPosition))
       => /\ RenderedSites(layers') = RenderedSites(layers)
          /\ momentos' = momentos]_vars

\* The geolocation watch has reported the same location twice in a row,
\* with caches in sight.
C11_Witness ==
  /\ event.op = "gps"
  /\ Len(playerPolyline) = 3
  /\ playerPolyline[2] = playerPolyline[3]
  /\ Len(layers) > 0

\* The last event was a player action that changed session state: a move, a
\* GPS update, or a collect or deposit that moved a coin.
LastEventMutated ==
  \/ event.op \in {"move", "gps"}
  \/ event.op \in {"collect", "deposit"} /\ event.ret # <<>>

\* The four persisted entries say what memory holds.
Flushed ==
  localStorage = saveGame(momentos, playerCoins, playerPolyline, playerMarker)

\* C12: once a player action that changed session state has completed, the
\* four persisted entries equal the in-memory store, inventory, path and
\* player location.
C12_FlushedAfterAction == LastEventMutated => Flushed

\* Every cell of store a has the same memento in store b.
KeepsMementos(a, b) ==
  \A k \in MapKeys(a) : MapHas(b, k) /\ MapGet(b, k) = MapGet(a, k)

\* C13: a reload of the page right after a save resumes where the player left
\* off: the player location, the inventory in its order, the memento of every
\* saved cell and the path are what they were at the save.
C13_SaveReloadResumes ==
  [][(Flushed /\ event'.op = "reload")
       => /\ playerMarker' = playerMarker
          /\ playerCoins' = playerCoins
          /\ KeepsMementos(momentos, momentos')
          /\ playerPolyline' = playerPolyline]_vars

\* C14: no event other than a confirmed reset takes a cell key out of the
\* Memento Store.
C14_KeysNeverLost ==
  [][event'.op # "reset" => MapKeys(momentos) \subseteq MapKeys(momentos')]_vars

\* The cache of cell key as the first getOrCreateCache for it builds it.
InitialCache(key) == CoinCache(Allowance(key), [x |-> key[1], y |-> key[2]])

\* C15: a declined reset changes neither the persisted entries nor anything in
\* memory; a confirmed reset leaves all four persisted entries absent, the
\* inventory empty, the player at PLAYER_START on a path of that one point,
\* and every cache, stored or in view, at its initial state.
C15_ResetOnConfirmation ==
  [][/\ event'.op = "declined" =>
          UNCHANGED <<momentos, playerCoins, layers, playerMarker,
                      playerPolyline, localStorage, watching>>
     /\ event'.op = "reset" =>
          /\ localStorage' = EmptyStorage
          /\ playerCoins' = <<>>
          /\ playerMarker' = PLAYER_START
          /\ playerPolyline' = <<PLAYER_START>>
          /\ \A k \in MapKeys(momentos') :
               StoredCache(momentos', k) = InitialCache(k)
          /\ \A i \in 1..Len(layers') :
               layers'[i] = InitialCache(PosKey(layers'[i].position))]_vars

\* The player, holding a coin that is also saved, has just declined a reset.
C15_Witness ==
  /\ event.op = "declined"
  /\ playerCoins # <<>>
  /\ localStorage.playerCoins = <<StringifyCoins(playerCoins)>>

ButLast(s) == SubSeq(s, 1, Len(s) - 1)

\* C16: a collect that yields a coin appends it at the end of the player
\* inventory and takes at most the last coin from the cache's; a deposit with
\* a non-empty player inventory removes its last coin and appends that coin at
\* the end of the target cache's inventory, in the view and in the store.
C16_InventoryIsStack ==
  [][LET i == event'.idx
     IN  /\ (event'.op = "collect" /\ event'.ret # <<>>) =>
              /\ playerCoins' = Append(playerCoins, event'.ret[1])
              /\ layers'[i].inventory = ButLast(layers[i].inventory)
         /\ (event'.op = "deposit" /\ playerCoins # <<>>) =>
              LET coin == playerCoins[Len(playerCoins)]
                  inv == Append(layers[i].inventory, coin)
              IN  /\ playerCoins' = ButLast(playerCoins)
                  /\ layers'[i].inventory = inv
                  /\ StoredCache(momentos', PosKey(layers[i].position))
                       .inventory = inv]_vars

\* A deposit has just been made by a player who held at least two coins.
C16_Witness ==
  /\ event.op = "deposit"
  /\ event.ret # <<>>
  /\ playerCoins # <<>>

IsPrefix(s, t) == Len(s) <= Len(t) /\ SubSeq(t, 1, Len(s)) = s

\* C17: over every event but a confirmed reset the path before is a prefix of
\* the path after, and a move or GPS update appends exactly the new position.
C17_PathAppendOnly ==
  [][event'.op # "reset" =>
       /\ IsPrefix(playerPolyline, playerPolyline')
       /\ event'.op \in {"move", "gps"} =>
            playerPolyline' = Append(playerPolyline, playerMarker')]_vars

\* The first n calls on the cache were all takeCoin.
FirstTakes(n) == Len(log) >= n /\ \A i \in 1..n : log[i].op = "takeCoin"

\* Six takes, then one coin left and taken again.
DepositedBack ==
  /\ FirstTakes(6)
  /\ Len(log) >= 8
  /\ log[7].op = "leaveCoin"
  /\ log[8].op = "takeCoin"

\* C18: the cache of a cell whose key hashes to 0.05 starts with 5 mints; its
\* first five takeCoin calls return its coins 0, 1, 2, 3, 4 in that order and a
\* sixth returns none; a coin then left and taken comes back as it was, with
\* mints_remaining still 0 and last_coin still 5.
C18_Scenario ==
  /\ log = <<>> =>
       /\ cc.mints_remaining = 5
       /\ cc.last_coin = 0
       /\ cc.inventory = <<>>
       /\ cc.position = ScenarioCell
  /\ \A n \in 1..5 :
       FirstTakes(n) =>
         log[n].coin = <<[origin |-> ScenarioCell, coin_number |-> n - 1]>>
  /\ FirstTakes(6) => log[6].coin = <<>>
  /\ DepositedBack =>
       /\ log[8].coin = log[7].coin
       /\ \A i \in 7..Len(log) :
            log[i].pre.mints_remaining = 0 /\ log[i].pre.last_coin = 5
       /\ cc.mints_remaining = 0
       /\ cc.last_coin = 5

\* The whole scenario has been played.
C18_Witness == DepositedBack /\ Len(log) = 8

\* C19: movement events take effect one at a time in the order they arrive:
\* a GPS update puts the player at the reported coordinates whatever came
\* before, a manual move puts the player one step from where the event before
\* left them, and each event adds its own point to the path.
C19_LastWriteWins ==
  [][/\ event'.op = "gps" => playerMarker' = GPSLocations[event'.idx]
     /\ event'.op = "move" =>
          playerMarker' =
            [x |-> playerMarker.x + Directions[event'.idx][2],
             y |-> playerMarker.y + Directions[event'.idx][1]]
     /\ event'.op \in {"gps", "move"} =>
          playerPolyline' = Append(playerPolyline, playerMarker')]_vars

\* A manual move has been applied on top of a GPS update to a far location.
C19_Witness ==
  /\ event.op = "move"
  /\ Len(playerPolyline) = 3
  /\ playerPolyline[2] = GPSLocations[2]
  /\ playerMarker = playerPolyline[3]
  /\ playerMarker # PLAYER_START

\* C20: the layer group never holds two views of the same cell.
C20_OneViewPerCell ==
  \A i, j \in 1..Len(layers) :
    layers[i].position = layers[j].position => i = j

\* A pass after a move has replaced the views of the pass before it, and two
\* caches are in sight.
C20_Witness ==
  /\ event.op = "move"
  /\ Len(layers) >= 2

\* The cells of the square of side 2 * NEIGHBORHOOD_SIZE around cell p whose
\* hash is below CACHE_SPAWN_PROBABILITY.
NeighborhoodSites(p) ==
  {c \in [x : (p.x - NEIGHBORHOOD_SIZE)..(p.x + NEIGHBORHOOD_SIZE - 1),
          y : (p.y - NEIGHBORHOOD_SIZE)..(p.y + NEIGHBORHOOD_SIZE - 1)] :
     luck(PosKey(c)) < CACHE_SPAWN_PROBABILITY}

RenderedCells == {layers[i].position : i \in 1..Len(layers)}

\* C21: right after a generation pass for a position with cell p, the rendered
\* sites are the cells of NeighborhoodSites(p), each once, and no other: what
\* an earlier pass rendered is gone.
C21_PassRendersNeighborhood ==
  LastEventWasPass =>
    /\ RenderedCells = NeighborhoodSites(toMapCoordinates(LastPassPosition))
    /\ Len(layers) = Cardinality(RenderedCells)

\* A move has brought a cache into the neighbourhood and taken another out.
C21_Witness ==
  /\ event.op = "move"
  /\ Len(playerPolyline) = 2
  /\ RenderedCells # NeighborhoodSites(toMapCoordinates(PLAYER_START))
  /\ RenderedCells # {}

\* C22: at every event boundary the rendered sites are the spawn sites of the
\* neighbourhood around the cell of the player's current location.
C22_SitesFollowPlayer ==
  RenderedCells = NeighborhoodSites(toMapCoordinates(playerMarker))

\* The number of coins of sequence coins whose origin is the cell of key.
RECURSIVE CoinsOf(_, _)
CoinsOf(key, coins) ==
  IF coins = <<>> THEN 0
  ELSE (IF PosKey(coins[1].origin) = key THEN 1 ELSE 0)
         + CoinsOf(key, SubSeq(coins, 2, Len(coins)))

\* C23: for every cell with a memento, its mints_remaining plus the number of
\* coins of that origin held by the player and by all stored caches is the
\* allowance floor(luck * 100) the cell was created with.
C23_CoinConservation ==
  \A key \in MapKeys(momentos) :
    StoredCache(momentos, key).mints_remaining + CoinsOf(key, HeldCoins)
      = Allowance(key)

\* The player holds a coin while a cache holds a coin minted by another cell.
C23_Witness ==
  /\ playerCoins # <<>>
  /\ \E key \in MapKeys(momentos) :
       \E i \in 1..Len(StoredCache(momentos, key).inventory) :
         PosKey(StoredCache(momentos, key).inventory[i].origin) # key

\* Every entry of the store is filed under the key of the position its
\* memento records.
KeysMatchPositions(store) ==
  \A i \in 1..Len(store) :
    PosKey(StoredCache(store, store[i].key).position) = store[i].key

\* C24: every entry of the Memento Store is filed under the key of the
\* position recorded in its memento, and a collect or deposit on the view of
\* a cell leaves the set of keys and the memento of every other cell as they
\* were.
C24_KeyConsistencyAndFrame ==
  [][/\ KeysMatchPositions(momentos)
     /\ KeysMatchPositions(momentos')
     /\ event'.op \in {"collect", "deposit"} =>
          /\ MapKeys(momentos') = MapKeys(momentos)
          /\ \A k \in MapKeys(momentos) \ {PosKey(layers[event'.idx].position)} :
               MapGet(momentos', k) = MapGet(momentos, k)]_vars

\* A coin minted by one cell has just been deposited in the cache of another,
\* with the mementos of further cells in the store.
C24_Witness ==
  /\ event.op = "deposit"
  /\ event.ret # <<>>
  /\ event.ret[1].origin # layers[event.idx].position
  /\ Len(momentos) >= 3

\* No coin was left in the cache before call n.
NothingLeftBefore(n) == \A i \in 1..(n - 1) : log[i].op # "leaveCoin"

\* mints_remaining of the cache when the pass created it.
InitialMints == IF log = <<>> THEN cc.mints_remaining
                ELSE log[1].pre.mints_remaining

\* C25: a cache created by a generation pass starts with mints_remaining in
\* 0..9, below CACHE_SPAWN_PROBABILITY * 100; one whose luck is below 0.01
\* starts with none, and every takeCoin on it returns nothing as long as no
\* coin has been left in it.
C25_SpawnBoundsMints ==
  /\ InitialMints \in 0..9
  /\ InitialMints < (CACHE_SPAWN_PROBABILITY * 100) \div 1000
  /\ luck(PosKey(cc.position)) < 10 =>
       /\ InitialMints = 0
       /\ \A n \in 1..Len(log) :
            (log[n].op = "takeCoin" /\ NothingLeftBefore(n)) =>
              log[n].coin = <<>>

\* A cache with luck below 0.01 has refused a collect, then given back the
\* coin deposited in it.
C25_Witness ==
  /\ luck(PosKey(cc.position)) < 10
  /\ Len(log) = 3
  /\ log[1].op = "takeCoin"
  /\ log[2].op = "leaveCoin"
  /\ log[3].op = "takeCoin"
  /\ log[3].coin = log[2].coin

\* The short computation of the spawn sites is the loops' own.
SitesAreLoopSites ==
  /\ SpawnSites(toMapCoordinates(playerMarker))
       = LoopSites(toMapCoordinates(playerMarker))
  /\ SpawnSites(toMapCoordinates(PLAYER_START))
       = LoopSites(toMapCoordinates(PLAYER_START))

====
